---- MODULE Spec2Model ----
(***************************************************************************)
(* BaseHumidifier (src/src/devices/humidifier.ts): the property            *)
(* synchronisation engine of the Mi humidifier Homebridge plugin.          *)
(*                                                                         *)
(* The engine registers the bindings of a Feature Table on an accessory,   *)
(* polls the device for the registered properties, serves attribute gets   *)
(* from a cache, forwards attribute sets to the device and records         *)
(* selected readings in a history log.                                     *)
(***************************************************************************)
EXTENDS Integers, Sequences, FiniteSets, TLC

(***************************************************************************)
(* Bounds of the model.                                                    *)
(***************************************************************************)
MaxConfigs == 1
MaxPolls == 2
MaxWrites == 2
MaxTicks == 1
MaxReconfigs == 1

(***************************************************************************)
(* JavaScript values.  Every value is a record [t, v]: t is the value's    *)
(* type, v its payload.  Strings are numbered: 0 is the empty string.      *)
(***************************************************************************)
Num(n) == [t |-> "number", v |-> n]
Bool(b) == [t |-> "boolean", v |-> IF b THEN 1 ELSE 0]
Str(c) == [t |-> "string", v |-> c]
Null == [t |-> "null", v |-> 0]
Undefined == [t |-> "undefined", v |-> 0]
NaN == [t |-> "NaN", v |-> 0]

StrEmpty == Str(0)
StrOn == Str(1)
StrOff == Str(2)
StrXiaomi == Str(3)

\* JavaScript truthiness, as tested by `!result` and `this.cache[key] ? .. : ..`.
Truthy(x) ==
  CASE x.t = "number" -> x.v # 0
    [] x.t = "boolean" -> x.v = 1
    [] x.t = "string" -> x.v # 0
    [] OTHER -> FALSE

\* parseInt(" " + result.valueOf()): a number prints as its digits, anything
\* else modelled here (true, "on", "off", "Xiaomi") has no leading digits.
ParseInt(x) == IF x.t = "number" THEN Num(x.v) ELSE NaN

\* Math.round(new Date().valueOf() / 1000) for a clock in milliseconds.
RoundSeconds(ms) == (ms + 500) \div 1000

(***************************************************************************)
(* Read and write transforms a Feature Table may carry (config.get.map,    *)
(* config.set.map).  "" stands for an absent transform: the engine then    *)
(* uses the identity.                                                      *)
(***************************************************************************)
Threw == [t |-> "threw", v |-> 0]

ApplyGetMap(m, x) ==
  CASE m = "isOn" -> Bool(x = StrOn)
    [] m = "inc" -> IF x.t = "number" THEN Num(x.v + 1)
                    ELSE IF x.t = "null" THEN Num(1) ELSE NaN
    [] OTHER -> x

ApplySetMap(m, x) ==
  CASE m = "onOff" -> IF Truthy(x) THEN StrOn ELSE StrOff
    [] m = "mode" -> IF x = Num(1) THEN StrOn ELSE Threw
    [] OTHER -> x

(***************************************************************************)
(* Feature Tables: sequences of characteristic configurations              *)
(* (CharacteristicConfigStatic | CharacteristicConfigDynamic).             *)
(*   kind "value"    : `value` is a static value                           *)
(*   kind "callback" : `value` is a get callback                           *)
(*   kind "dynamic"  : no `value`, the characteristic is device-backed     *)
(***************************************************************************)
Config(service, displayName, subtype, characteristic) ==
  [service |-> service, hasName |-> displayName # "", displayName |-> displayName,
   subtype |-> subtype, characteristic |-> characteristic,
   kind |-> "value", value |-> Undefined, key |-> "", getMap |-> "",
   hasSet |-> FALSE, call |-> "", setMap |-> "", beforeSet |-> FALSE,
   afterSet |-> FALSE, historyType |-> "", historyKey |-> ""]

Static(c, val) == [c EXCEPT !.kind = "value", !.value = val]
Callback(c) == [c EXCEPT !.kind = "callback"]
Dynamic(c, key, getMap) == [c EXCEPT !.kind = "dynamic", !.key = key, !.getMap = getMap]
WithSet(c, call, setMap, before, after) ==
  [c EXCEPT !.hasSet = TRUE, !.call = call, !.setMap = setMap,
            !.beforeSet = before, !.afterSet = after]
WithHistory(c, type, key) == [c EXCEPT !.historyType = type, !.historyKey = key]

TableA ==
  << Static(Config("AccessoryInformation", "", "", "Manufacturer"), StrXiaomi),
     WithSet(Dynamic(Config("HumidifierDehumidifier", "", "", "Active"), "power", "isOn"),
             "set_power", "onOff", TRUE, TRUE),
     WithSet(Dynamic(Config("HumidifierDehumidifier", "", "", "TargetHumidity"),
                     "humidity", ""),
             "set_limit_hum", "", FALSE, TRUE),
     WithHistory(Dynamic(Config("HumiditySensor", "Humidity", "humidity", "CurrentHumidity"),
                         "humidity", ""),
                 "room", "humidity") >>

TableB ==
  << Callback(Config("AccessoryInformation", "", "", "Model")),
     WithHistory(Dynamic(Config("TemperatureSensor", "Temperature", "temperature",
                                "CurrentTemperature"), "temp", "inc"),
                 "room", "temp"),
     WithHistory(Dynamic(Config("HumidifierDehumidifier", "", "", "CurrentHumidity"),
                         "humidity", ""),
                 "room", "humidity"),
     WithSet(Dynamic(Config("HumidifierDehumidifier", "", "", "RotationSpeed"),
                     "humidity", ""),
             "set_mode", "mode", TRUE, FALSE) >>

TableC ==
  << WithSet(Dynamic(Config("HumidifierDehumidifier", "", "", "Active"), "power", "isOn"),
             "set_power", "", FALSE, FALSE),
     Static(Config("AccessoryInformation", "", "", "Manufacturer"), StrXiaomi) >>

FeatureTables == {TableA, TableB, TableC}

\* One device-backed binding with a write path and both hooks.
TableD ==
  << WithSet(Dynamic(Config("HumidifierDehumidifier", "", "", "Active"), "power", "isOn"),
             "set_power", "onOff", TRUE, TRUE) >>

\* Malformed tables: a device-backed binding without `key`, and a write path
\* without `call`.  "" stands for the absent field.
TableNoKey ==
  << Static(Config("AccessoryInformation", "", "", "Manufacturer"), StrXiaomi),
     Dynamic(Config("HumidifierDehumidifier", "", "", "CurrentHumidity"), "", "") >>

TableNoCall ==
  << WithSet(Dynamic(Config("HumidifierDehumidifier", "", "", "Active"), "power", "isOn"),
             "", "onOff", FALSE, FALSE),
     Static(Config("AccessoryInformation", "", "", "Manufacturer"), StrXiaomi) >>

MalformedTables == {TableNoKey, TableNoCall}

\* Values the device reports for a property.
DeviceValues(key) ==
  IF key = "power" THEN {StrOn, StrOff} ELSE {Num(0), Num(47)}

AllKeys == {"power", "humidity", "temp"}

\* Values the Accessory Host asks to set.
RequestValues == {Num(0), Num(1)}

(***************************************************************************)
(* The accessory's tree on the Accessory Host: a sequence of services,     *)
(* each with the sequence of its characteristics.  `id` tells service      *)
(* objects apart.                                                          *)
(***************************************************************************)
Service(id, uuid, displayName, subtype, chars) ==
  [id |-> id, uuid |-> uuid, displayName |-> displayName, subtype |-> subtype,
   characteristics |-> chars]

\* A new accessory: the information service only.
TreeNew ==
  << Service(1, "AccessoryInformation", "", "", <<"Identify", "Manufacturer", "Model">>) >>

\* Restored from the host's cache; LED bulb and buzzer switch were enabled.
TreeRestored ==
  << Service(1, "AccessoryInformation", "", "", <<"Manufacturer">>),
     Service(2, "HumidifierDehumidifier", "", "",
             <<"Active", "WaterLevel", "SwingMode", "TargetHumidity">>),
     Service(3, "Lightbulb", "Led", "led", <<"On">>),
     Service(4, "Switch", "Buzzer", "buzzer", <<"On">>) >>

\* Restored; the sensors were registered under other subtypes.
TreeOtherSubtype ==
  << Service(1, "AccessoryInformation", "", "", <<"Model">>),
     Service(2, "TemperatureSensor", "Temperature", "temp-old", <<"CurrentTemperature">>),
     Service(3, "HumiditySensor", "Humidity", "hum-old", <<"CurrentHumidity">>) >>

\* Restored; the sensors were registered under other display names.
TreeOtherName ==
  << Service(1, "AccessoryInformation", "", "", <<"Manufacturer", "Model">>),
     Service(2, "TemperatureSensor", "Temp", "temperature", <<"CurrentTemperature">>),
     Service(3, "HumiditySensor", "Hum", "humidity", <<"CurrentHumidity">>) >>

InitialTrees == {TreeNew, TreeRestored, TreeOtherSubtype, TreeOtherName}

VARIABLES
  features,         \* this.features: the Feature Table
  services,         \* accessory.services, with service.characteristics
  nextId,           \* identity of the next service object created
  props,            \* this.props: the Property Index
  cache,            \* this.cache: the Property Cache
  charValue,        \* value of each characteristic object (setValue/updateValue)
  historyServices,  \* this.historyServices: the history types with a handle
  history,          \* entries of each history type's log
  nowMs,            \* the clock, in milliseconds
  configs,          \* configureAccessory calls: number made, "failed" flag
  poll,             \* the update() invocation under way
  write,            \* the setProp() invocation under way
  lastGet,          \* the last get acknowledgment given to the host
  getListeners,     \* "get" responders installed by register
  setListeners,     \* "set" responders installed by register (SetEntry records)
  deviceCalls       \* number of Device Protocol calls issued

vars == << features, services, nextId, props, cache, charValue, historyServices,
           history, nowMs, configs, poll, write, lastGet, getListeners,
           setListeners, deviceCalls >>

HistoryTypes == {"room"}
HistoryKeys == {"temp", "humidity"}

MinOf(S) == CHOOSE i \in S : \A j \in S : i <= j

RemoveAt(seq, i) == SubSeq(seq, 1, i - 1) \o SubSeq(seq, i + 1, Len(seq))

SeqContains(seq, x) == \E i \in 1..Len(seq) : seq[i] = x

(***************************************************************************)
(* Accessory Host operations used by register and configureAccessory.      *)
(***************************************************************************)
\* service.getServiceId(): UUID + (subtype || "")
GetServiceId(service) == << service.uuid, service.subtype >>

\* feature.service.UUID + (feature.name ? feature.name.subtype : "")
FeatureServiceId(feature) ==
  << feature.service, IF feature.hasName THEN feature.subtype ELSE "" >>

\* accessory.getService(displayName): the first service the name matches, 0 if none
GetServiceByName(svcs, name) ==
  LET hits == {i \in 1..Len(svcs) :
                 svcs[i].displayName = name \/ svcs[i].subtype = name}
  IN IF hits = {} THEN 0 ELSE MinOf(hits)

\* accessory.getService(config.service): the first service of that type, 0 if none
GetServiceByType(svcs, uuid) ==
  LET hits == {i \in 1..Len(svcs) : svcs[i].uuid = uuid}
  IN IF hits = {} THEN 0 ELSE MinOf(hits)

\* accessory.addService refuses a second service of one type unless the
\* subtypes differ.
AddServiceThrows(svcs, uuid, subtype) ==
  \E i \in 1..Len(svcs) :
    svcs[i].uuid = uuid /\ (subtype = "" \/ svcs[i].subtype = subtype)

\* service.getCharacteristic(config.characteristic): found or added
GetCharacteristic(service, char) ==
  IF SeqContains(service.characteristics, char) THEN service
  ELSE [service EXCEPT !.characteristics = Append(@, char)]

\* The service object register works on: found, or created and added.
\* Result: [services, nextId, at (its place in services), threw].
ObtainService(svcs, nid, config) ==
  IF config.hasName
  THEN IF GetServiceByName(svcs, config.displayName) # 0
       THEN [services |-> svcs, nextId |-> nid,
             at |-> GetServiceByName(svcs, config.displayName), threw |-> FALSE]
       ELSE IF AddServiceThrows(svcs, config.service, config.subtype)
            THEN [services |-> svcs, nextId |-> nid, at |-> 0, threw |-> TRUE]
            ELSE [services |->
                    Append(svcs, Service(nid, config.service, config.displayName,
                                         config.subtype, <<"Name">>)),
                  nextId |-> nid + 1, at |-> Len(svcs) + 1, threw |-> FALSE]
  ELSE IF GetServiceByType(svcs, config.service) # 0
       THEN [services |-> svcs, nextId |-> nid,
             at |-> GetServiceByType(svcs, config.service), threw |-> FALSE]
       ELSE [services |-> Append(svcs, Service(nid, config.service, "", "", << >>)),
             nextId |-> nid + 1, at |-> Len(svcs) + 1, threw |-> FALSE]

\* characteristic.setValue / characteristic.updateValue on a characteristic object
SetCharValue(values, characteristic, v) ==
  [c \in DOMAIN values \cup {characteristic} |->
     IF c = characteristic THEN v ELSE values[c]]

(***************************************************************************)
(* register                                                                *)
(***************************************************************************)
\* getMap as register builds it: config.get.map or the identity, wrapped
\* with the history recording when the config has historyKey and historyType.
GetMapOf(config) ==
  [oldMap |-> config.getMap,
   history |-> config.historyKey # "" /\ config.historyType # "",
   historyType |-> config.historyType,
   historyKey |-> config.historyKey]

\* The SetEntry register builds for a config with a write path.
SetEntryOf(config, characteristic) ==
  [key |-> config.key, call |-> config.call, characteristic |-> characteristic,
   map |-> config.setMap, beforeSet |-> config.beforeSet, afterSet |-> config.afterSet]

\* Every characteristic is saved in an entry of its own.
SavePropNewEntry(prps, key, value) ==
  Append(prps, [key |-> key, values |-> << value >>])

\* this.props after the characteristic was saved under the key: added to the
\* key's entry if there is one, else in a new entry.
SaveProp(prps, key, value) ==
  IF \E i \in 1..Len(prps) : prps[i].key = key
  THEN [prps EXCEPT ![MinOf({i \in 1..Len(prps) : prps[i].key = key})].values =
                      Append(@, value)]
  ELSE Append(prps, [key |-> key, values |-> << value >>])

\* Only a static value counts as sourceless, a get callback does not.
IsStaticValue(config) == config.kind = "value"

\* Does register treat the config as sourceless ("value" in config)?
IsStatic(config) == config.kind # "dynamic"

\* One register call on the state st = [services, nextId, props, charValue,
\* getListeners, setListeners, threw]; a call after a throw does not happen.
Register(st, config) ==
  IF st.threw THEN st
  ELSE
    LET got == ObtainService(st.services, st.nextId, config)
    IN IF got.threw THEN [st EXCEPT !.threw = TRUE]
       ELSE
         LET service == GetCharacteristic(got.services[got.at], config.characteristic)
             characteristic == << service.id, config.characteristic >>
             st1 == [st EXCEPT !.services = [got.services EXCEPT ![got.at] = service],
                               !.nextId = got.nextId]
         IN IF IsStatic(config)
            THEN IF config.kind = "callback" THEN st1
                 ELSE [st1 EXCEPT !.charValue =
                                    SetCharValue(@, characteristic, config.value)]
            ELSE [st1 EXCEPT
                    !.props = SaveProp(@, config.key,
                                       [characteristic |-> characteristic,
                                        map |-> GetMapOf(config)]),
                    !.getListeners = @ \cup {[characteristic |-> characteristic,
                                              key |-> config.key,
                                              map |-> GetMapOf(config)]},
                    !.setListeners = IF config.hasSet
                                     THEN @ \cup {SetEntryOf(config, characteristic)}
                                     ELSE @]

RECURSIVE RegisterAll(_, _, _)
\* this.features.forEach((feature) => this.register(accessory, feature))
RegisterAll(st, ft, i) ==
  IF i > Len(ft) THEN st ELSE RegisterAll(Register(st, ft[i]), ft, i + 1)

(***************************************************************************)
(* configureAccessory: the cleanup of disabled services and                *)
(* characteristics.  removeService and removeCharacteristic take the       *)
(* element out of the very list forEach is walking, so the element that    *)
(* follows a removed one moves into the visited place and is not visited.  *)
(***************************************************************************)
EnabledServices(ft) == {FeatureServiceId(ft[j]) : j \in 1..Len(ft)}

EnabledCharacteristics(ft, service) ==
  {ft[j].characteristic :
     j \in {k \in 1..Len(ft) : FeatureServiceId(ft[k]) = GetServiceId(service)}}

RECURSIVE CleanCharacteristics(_, _, _)
CleanCharacteristics(chars, enabled, i) ==
  IF i > Len(chars) THEN chars
  ELSE IF chars[i] \notin enabled
       THEN CleanCharacteristics(RemoveAt(chars, i), enabled, i + 1)
       ELSE CleanCharacteristics(chars, enabled, i + 1)

RECURSIVE CleanServices(_, _, _)
CleanServices(svcs, ft, i) ==
  IF i > Len(svcs) THEN svcs
  ELSE IF GetServiceId(svcs[i]) \notin EnabledServices(ft)
       THEN CleanServices(RemoveAt(svcs, i), ft, i + 1)
       ELSE CleanServices(
              [svcs EXCEPT ![i].characteristics =
                 CleanCharacteristics(@, EnabledCharacteristics(ft, svcs[i]), 1)],
              ft, i + 1)

\* The history types configureAccessory creates an EveHistoryService for.
RequestedHistoryTypes(ft) ==
  {ft[j].historyType : j \in {k \in 1..Len(ft) : ft[k].historyType # ""}}

Configured == configs.count > 0 /\ ~configs.failed

\* One run of configureAccessory on the engine and the accessory as they are.
ConfigurePass ==
  /\ LET st == RegisterAll([services |-> services, nextId |-> nextId,
                            props |-> props, charValue |-> charValue,
                            getListeners |-> getListeners,
                            setListeners |-> setListeners, threw |-> FALSE],
                           features, 1)
     IN /\ nextId' = st.nextId
        /\ props' = st.props
        /\ charValue' = st.charValue
        /\ getListeners' = st.getListeners
        /\ setListeners' = st.setListeners
        /\ IF st.threw
           THEN /\ services' = st.services
                /\ configs' = [count |-> configs.count + 1, failed |-> TRUE]
                /\ UNCHANGED historyServices
           ELSE /\ services' = CleanServices(st.services, features, 1)
                /\ configs' = [count |-> configs.count + 1, failed |-> FALSE]
                /\ historyServices' =
                     historyServices \cup RequestedHistoryTypes(features)
  /\ UNCHANGED << features, cache, history, nowMs, poll, write, lastGet, deviceCalls >>

configureAccessory ==
  /\ configs.count < MaxConfigs
  /\ ~configs.failed
  /\ poll.pc = "idle"
  /\ write.pc = "idle"
  /\ ConfigurePass

\* configureAccessory is called on an engine that was configured before.
configureAgain ==
  /\ Configured
  /\ configs.count >= MaxConfigs
  /\ configs.count < MaxConfigs + MaxReconfigs
  /\ poll.pc = "idle"
  /\ write.pc = "idle"
  /\ ConfigurePass

(***************************************************************************)
(* History Log (EveHistoryService): per history type the list of entries.  *)
(* getLastEntry gives the most recent entry, addEntry appends an entry or  *)
(* updates the most recent one when the timestamps agree.                  *)
(***************************************************************************)
NoEntry == [time |-> -1, fields |-> [k \in HistoryKeys |-> Undefined]]

GetLastEntry(log) == IF log = << >> THEN NoEntry ELSE log[Len(log)]

AddEntry(log, entry) ==
  IF log # << >> /\ log[Len(log)].time = entry.time
  THEN [log EXCEPT ![Len(log)] = entry]
  ELSE Append(log, entry)

(***************************************************************************)
(* getMap: the transform, and the history recording wrapped around it.     *)
(***************************************************************************)
\* A new entry every time, whatever the log holds.
EntryAlwaysNew(log, seconds) == [NoEntry EXCEPT !.time = seconds]

\* The log's last entry with the time it has.
EntryKeepsTime(log, seconds) ==
  IF GetLastEntry(log) = NoEntry
  THEN [NoEntry EXCEPT !.time = seconds]
  ELSE GetLastEntry(log)

\* The entry the wrapper writes to: the log's last entry with the time set
\* to now, or a new entry when the log has none.
EntryToUpdate(log, seconds) ==
  IF GetLastEntry(log) = NoEntry
  THEN [NoEntry EXCEPT !.time = seconds]
  ELSE [GetLastEntry(log) EXCEPT !.time = seconds]

\* The history when the wrapper records whatever the transform gave.
RecordHistoryAlways(map, result, hs, hist, ms) ==
  IF ~map.history \/ map.historyType \notin hs
  THEN hist
  ELSE [hist EXCEPT ![map.historyType] =
          AddEntry(@, [EntryToUpdate(@, RoundSeconds(ms)) EXCEPT
                         !.fields[map.historyKey] = ParseInt(result)])]

\* The history after getMap ran on a value with the given result.
RecordHistory(map, result, hs, hist, ms) ==
  IF ~map.history \/ ~Truthy(result) \/ map.historyType \notin hs
  THEN hist
  ELSE [hist EXCEPT ![map.historyType] =
          AddEntry(@, [EntryToUpdate(@, RoundSeconds(ms)) EXCEPT
                         !.fields[map.historyKey] = ParseInt(result)])]

\* The property value passed on without the transform.
GetMapResultRaw(map, it) == it

\* What getMap returns: the result of the transform.
GetMapResult(map, it) == ApplyGetMap(map.oldMap, it)

(***************************************************************************)
(* update                                                                  *)
(***************************************************************************)
\* this.props.map((prop) => prop.key)
PropKeys(prps) == [i \in 1..Len(prps) |-> prps[i].key]

RECURSIVE Flatten(_, _)
\* The (key, value) pairs in the order update's two forEach loops visit them.
Flatten(prps, i) ==
  IF i > Len(prps) THEN << >>
  ELSE [j \in 1..Len(prps[i].values) |->
          [key |-> prps[i].key, value |-> prps[i].values[j]]]
       \o Flatten(prps, i + 1)

\* The value update reads for a prop: this.cache[prop.key]
PropValue(c, key) == IF key \in DOMAIN c THEN c[key] ELSE Undefined

RECURSIVE PushAll(_, _, _, _, _, _, _)
\* The push loop from the i-th pair on, on st = [charValue, history];
\* updateValue throws at the failAt-th pair (0: it never throws).
PushAll(pairs, i, st, c, hs, ms, failAt) ==
  IF i > Len(pairs) THEN st
  ELSE
    LET value == pairs[i].value
        charVal == GetMapResult(value.map, PropValue(c, pairs[i].key))
        hist == RecordHistory(value.map, charVal, hs, st.history, ms)
    IN IF i = failAt
       THEN [st EXCEPT !.history = hist]
       ELSE PushAll(pairs, i + 1,
                    [charValue |-> SetCharValue(st.charValue, value.characteristic,
                                                charVal),
                     history |-> hist],
                    c, hs, ms, failAt)

\* The object getProps answers with for the mapping V of the requested
\* keys: a key it does not have reads as undefined.
MappingOf(V) == [k \in AllKeys |-> IF k \in DOMAIN V THEN V[k] ELSE Undefined]

\* The humidity of the answer is written into the cache object in place.
CacheMerged(V) ==
  [k \in AllKeys |-> IF k = "humidity" THEN MappingOf(V)[k] ELSE cache[k]]

\* this.cache = await this.protocol.getProps(..): the cache is the answer.
CacheOf(V) == MappingOf(V)

\* The lines the catch of update() logs for an error: log.error always,
\* the invalid-token log.warn when err instanceof miio.ProtocolError.
UpdateLogs(err) ==
  {"error"} \cup (IF err = "ProtocolError" THEN {"warn.invalidToken"} ELSE {})

\* The error leaves update(): the promise it returned rejects.
UpdateRethrows(p, err) ==
  [p EXCEPT !.pc = "rejected", !.outcome = "error", !.error = err,
            !.failures = @ + 1, !.logged = UpdateLogs(err)]

\* catch (err): the error is logged and update() ends normally.
UpdateCatch(p, err) ==
  [p EXCEPT !.pc = "idle", !.outcome = "error", !.error = err,
            !.failures = @ + 1, !.logged = UpdateLogs(err)]

\* The invocation n of update() ended.  With another one still waiting for
\* its answer the engine goes on fetching.  `stored` tells whether the
\* invocation assigned the cache.
Settle(p, n, stored) ==
  [p EXCEPT !.inFlight = @ \ {n},
            !.pc = IF p.inFlight \ {n} = {} THEN p.pc ELSE "fetching",
            !.stored = IF stored THEN n ELSE @,
            !.regressed = @ \/ (stored /\ n < p.stored)]

\* The scheduler calls update() on every interval, whatever is pending.
SchedulerFiresAlways == TRUE

\* The scheduler outside the engine calls update() only when no earlier
\* invocation is outstanding; update() itself does not refuse a call.
SchedulerFires == poll.inFlight = {}

\* update() is called: it asks the device for the indexed keys and waits.
updateStart ==
  /\ Configured
  /\ SchedulerFires
  /\ poll.count < MaxPolls
  /\ poll' = [pc |-> "fetching", count |-> poll.count + 1,
              keys |-> PropKeys(props), cacheBefore |-> cache,
              valuesBefore |-> charValue, outcome |-> "none",
              returned |-> poll.returned, error |-> "",
              fetched |-> FALSE, failures |-> poll.failures,
              logged |-> {}, inFlight |-> poll.inFlight \cup {poll.count + 1},
              stored |-> poll.stored, regressed |-> poll.regressed]
  /\ deviceCalls' = deviceCalls + 1
  /\ UNCHANGED << features, services, nextId, props, cache, charValue,
                  historyServices, history, nowMs, configs, write, lastGet,
                  getListeners, setListeners >>

\* getProps resolves with V: the cache is replaced and the values pushed.
updateResolve ==
  /\ poll.pc = "fetching"
  /\ \E V \in [{poll.keys[i] : i \in 1..Len(poll.keys)} -> UNION {DeviceValues(k) : k \in AllKeys}],
        failAt \in 0..Len(Flatten(props, 1)), n \in poll.inFlight :
       /\ \A k \in DOMAIN V : V[k] \in DeviceValues(k)
       /\ LET st == PushAll(Flatten(props, 1), 1,
                            [charValue |-> charValue, history |-> history],
                            CacheOf(V), historyServices, nowMs, failAt)
          IN /\ cache' = CacheOf(V)
             /\ charValue' = st.charValue
             /\ history' = st.history
             /\ poll' = Settle(IF failAt = 0
                                THEN [poll EXCEPT !.pc = "idle", !.outcome = "ok",
                                                  !.returned = MappingOf(V),
                                                  !.fetched = TRUE]
                                ELSE UpdateCatch([poll EXCEPT !.returned = MappingOf(V),
                                                              !.fetched = TRUE],
                                                 "Error"),
                                n, TRUE)
  /\ UNCHANGED << features, services, nextId, props, historyServices, nowMs,
                  configs, write, lastGet, getListeners, setListeners, deviceCalls >>

\* getProps rejects: update logs the error and ends.
updateReject ==
  /\ poll.pc = "fetching"
  /\ \E err \in {"ProtocolError", "Error"}, n \in poll.inFlight :
       poll' = Settle(UpdateCatch(poll, err), n, FALSE)
  /\ UNCHANGED << features, services, nextId, props, cache, charValue,
                  historyServices, history, nowMs, configs, write, lastGet,
                  getListeners, setListeners, deviceCalls >>

(***************************************************************************)
(* getProp: the "get" responder of a registered characteristic.            *)
(***************************************************************************)
\* The cached value as it is, also when it is absent.
CachedValueRaw(c, key) == PropValue(c, key)

\* The value getProp hands to the transform.
CachedValue(c, key) == IF Truthy(PropValue(c, key)) THEN PropValue(c, key) ELSE Null

getProp ==
  /\ \E l \in getListeners :
       LET result == GetMapResult(l.map, CachedValue(cache, l.key))
       IN /\ lastGet' = [pc |-> "done", characteristic |-> l.characteristic,
                         key |-> l.key, map |-> l.map, error |-> Null,
                         value |-> result]
          /\ history' = RecordHistory(l.map, result, historyServices, history, nowMs)
  /\ UNCHANGED << features, services, nextId, props, cache, charValue,
                  historyServices, nowMs, configs, poll, write, getListeners,
                  setListeners, deviceCalls >>

(***************************************************************************)
(* setProp: the "set" responder of a registered characteristic with a      *)
(* write path.  write.log lists what the invocation did, in order.         *)
(***************************************************************************)
Event(op, key, call, value, error) ==
  [op |-> op, key |-> key, call |-> call, value |-> value, error |-> error]

\* callback(): the success acknowledgment.
AckSuccess(w) ==
  [w EXCEPT !.pc = "idle", !.log = Append(@, Event("callback", "", "", Undefined, ""))]

\* The error is logged and the callback called without it.
AckFailureSilent(w, err) == AckSuccess(w)

\* The error is logged and the callback is not called.
AckFailureNone(w, err) == [w EXCEPT !.pc = "idle", !.logged = {"error"}]

\* The lines the catch of setProp logs for an error: log.error, whatever
\* the error is.
SetPropLogs(err) == {"error"}

\* catch (err): the error is logged and handed to the callback.
AckFailure(w, err) ==
  [w EXCEPT !.pc = "idle", !.log = Append(@, Event("callback", "", "", Undefined, err)),
            !.logged = SetPropLogs(err)]

\* await entry.afterSet(..): setProp is suspended until the hook settles.
AwaitAfterSet(w) == [w EXCEPT !.pc = "afterSet"]

\* From `if (entry.afterSet)` on.
RunAfterSet(w) ==
  IF w.entry.afterSet
  THEN AwaitAfterSet([w EXCEPT !.log = Append(@, Event("afterSet", "", "",
                                                       w.mappedValue, ""))])
  ELSE AckSuccess(w)

\* The device call is made and not awaited.
NoAwaitSetProp(w) == RunAfterSet(w)

\* await this.protocol.setProp(..): setProp is suspended until the call settles.
AwaitSetProp(w) == [w EXCEPT !.pc = "setProp"]

\* The device call is made whatever beforeSet answered.
CallsDeviceAlways(skipSet) == TRUE

\* Is the device call made for this result of beforeSet?
CallsDevice(skipSet) == skipSet # Bool(TRUE)

\* From `const mappedValue = entry.map(value)` on.
RunMap(w, skipSet) ==
  LET mappedValue == ApplySetMap(w.entry.map, w.value)
      w1 == [w EXCEPT !.skipSet = skipSet, !.mappedValue = mappedValue]
  IN IF mappedValue = Threw
     THEN AckFailure([w EXCEPT !.skipSet = skipSet,
                               !.log = Append(@, Event("map", "", "", w.value,
                                                       "TypeError"))],
                     "TypeError")
     ELSE IF CallsDevice(skipSet)
          THEN AwaitSetProp([w1 EXCEPT !.log = Append(@, Event("setProp", w.entry.key,
                                                               w.entry.call,
                                                               mappedValue, ""))])
          ELSE RunAfterSet(w1)

\* await entry.beforeSet(..): setProp is suspended until the hook settles.
AwaitBeforeSet(w) == [w EXCEPT !.pc = "beforeSet"]

\* From the start of setProp to its first await, or to its end.
RunSetProp(w) ==
  IF w.entry.beforeSet
  THEN AwaitBeforeSet([w EXCEPT !.log = Append(@, Event("beforeSet", "", "",
                                                        w.value, ""))])
  ELSE RunMap(w, Undefined)

\* A pending step of the write settled: with a value, or with an error.
Settled(w, op, value, error) ==
  [w EXCEPT !.log = Append(@, Event(op, "", "", value, error))]

\* Device Protocol calls the write issued so far.
SetPropCalls(w) == Cardinality({i \in 1..Len(w.log) : w.log[i].op = "setProp"})

\* An acknowledged write stores the value it sent under the entry's key.
CacheAfterWriteStored(w) ==
  IF w.pc = "idle" /\ w.log # << >> /\ w.log[Len(w.log)].error = ""
  THEN [cache EXCEPT ![w.entry.key] = w.mappedValue]
  ELSE cache

\* this.cache after a step of setProp: setProp has no assignment to it.
CacheAfterWrite(w) == cache

\* The host sets a characteristic: setProp runs to its first await.
setProp ==
  /\ write.pc = "idle"
  /\ write.count < MaxWrites
  /\ \E entry \in setListeners, value \in RequestValues :
       /\ write' = RunSetProp([pc |-> "idle", count |-> write.count + 1,
                               entry |-> entry, value |-> value,
                               skipSet |-> Undefined, mappedValue |-> Undefined,
                               log |-> << >>, cacheBefore |-> cache,
                               logged |-> {}, storedBefore |-> poll.stored])
       /\ deviceCalls' = deviceCalls + SetPropCalls(write')
  /\ cache' = CacheAfterWrite(write')
  /\ UNCHANGED << features, services, nextId, props, charValue,
                  historyServices, history, nowMs, configs, poll, lastGet,
                  getListeners, setListeners >>

\* beforeSet settles: with true, false or nothing, or by throwing.
beforeSetSettles ==
  /\ write.pc = "beforeSet"
  /\ \/ \E skipSet \in {Bool(TRUE), Bool(FALSE), Undefined} :
          write' = RunMap(Settled(write, "beforeSet.settled", skipSet, ""), skipSet)
     \/ write' = AckFailure(Settled(write, "beforeSet.settled", Undefined,
                                    "BeforeSetError"),
                            "BeforeSetError")
  /\ deviceCalls' = deviceCalls + SetPropCalls(write') - SetPropCalls(write)
  /\ cache' = CacheAfterWrite(write')
  /\ UNCHANGED << features, services, nextId, props, charValue,
                  historyServices, history, nowMs, configs, poll, lastGet,
                  getListeners, setListeners >>

\* protocol.setProp settles: the device did the call, or the call failed.
setPropSettles ==
  /\ write.pc = "setProp"
  /\ \/ write' = RunAfterSet(Settled(write, "setProp.settled", Undefined, ""))
     \/ \E err \in {"ProtocolError", "Error"} :
          write' = AckFailure(Settled(write, "setProp.settled", Undefined, err), err)
  /\ cache' = CacheAfterWrite(write')
  /\ UNCHANGED << features, services, nextId, props, charValue,
                  historyServices, history, nowMs, configs, poll, lastGet,
                  getListeners, setListeners, deviceCalls >>

\* afterSet settles: normally, or by throwing.
afterSetSettles ==
  /\ write.pc = "afterSet"
  /\ \/ write' = AckSuccess(Settled(write, "afterSet.settled", Undefined, ""))
     \/ write' = AckFailure(Settled(write, "afterSet.settled", Undefined,
                                    "AfterSetError"),
                            "AfterSetError")
  /\ cache' = CacheAfterWrite(write')
  /\ UNCHANGED << features, services, nextId, props, charValue,
                  historyServices, history, nowMs, configs, poll, lastGet,
                  getListeners, setListeners, deviceCalls >>

\* Time passes.
Tick ==
  /\ nowMs < MaxTicks * 500
  /\ nowMs' = nowMs + 500
  /\ UNCHANGED << features, services, nextId, props, cache, charValue,
                  historyServices, history, configs, poll, write, lastGet,
                  getListeners, setListeners, deviceCalls >>

\* The state after construction, but for the Feature Table given to it.
Constructed ==
  /\ services \in InitialTrees
  /\ nextId = Len(services) + 1
  /\ props = << >>
  /\ cache = [k \in AllKeys |-> Undefined]
  /\ charValue = [c \in {} |-> Undefined]
  /\ historyServices = {}
  /\ history = [h \in HistoryTypes |-> << >>]
  /\ nowMs = 0
  /\ configs = [count |-> 0, failed |-> FALSE]
  /\ poll = [pc |-> "idle", count |-> 0, keys |-> << >>, cacheBefore |-> cache,
             valuesBefore |-> charValue, outcome |-> "none", returned |-> cache,
             error |-> "", fetched |-> FALSE, failures |-> 0, logged |-> {},
             inFlight |-> {}, stored |-> 0, regressed |-> FALSE]
  /\ write = [pc |-> "idle", count |-> 0, entry |-> SetEntryOf(Config("", "", "", ""), << >>),
              value |-> Undefined, skipSet |-> Undefined, mappedValue |-> Undefined,
              log |-> << >>, cacheBefore |-> cache, logged |-> {},
              storedBefore |-> 0]
  /\ lastGet = [pc |-> "none", characteristic |-> << >>, key |-> "",
                map |-> GetMapOf(Config("", "", "", "")), error |-> Null,
                value |-> Undefined]
  /\ getListeners = {}
  /\ setListeners = {}
  /\ deviceCalls = 0

Init == features \in FeatureTables /\ Constructed

Next ==
  \/ configureAccessory
  \/ updateStart
  \/ updateResolve
  \/ updateReject
  \/ getProp
  \/ setProp
  \/ beforeSetSettles
  \/ setPropSettles
  \/ afterSetSettles
  \/ Tick

Spec == Init /\ [][Next]_vars

(***************************************************************************)
(* Parts of the system: configuration on every initial tree; the poll      *)
(* path and the write path on a new accessory.                             *)
(***************************************************************************)
NextConfig ==
  \/ configureAccessory
  \/ getProp
  \/ Tick

SpecConfig == Init /\ [][NextConfig]_vars

InitNew == Init /\ services = TreeNew

NextPoll ==
  \/ configureAccessory
  \/ updateStart
  \/ updateResolve
  \/ updateReject
  \/ getProp
  \/ Tick

SpecPoll == InitNew /\ [][NextPoll]_vars

NextWrite ==
  \/ configureAccessory
  \/ setProp
  \/ beforeSetSettles
  \/ setPropSettles
  \/ afterSetSettles

SpecWrite == InitNew /\ [][NextWrite]_vars

\* Configuration, gets and writes with a malformed Feature Table.
InitMalformed == features \in MalformedTables /\ Constructed

NextMalformed ==
  \/ configureAccessory
  \/ getProp
  \/ setProp
  \/ setPropSettles
  \/ Tick

SpecMalformed == InitMalformed /\ [][NextMalformed]_vars

\* Configuration passes repeated on one engine.
NextReconfig ==
  \/ configureAccessory
  \/ configureAgain
  \/ getProp
  \/ Tick

SpecReconfig == Init /\ [][NextReconfig]_vars

\* Polls, gets and writes side by side on one Feature Table.
InitMixed == features = TableD /\ Constructed /\ services = TreeNew

NextMixed ==
  \/ configureAccessory
  \/ updateStart
  \/ updateResolve
  \/ updateReject
  \/ getProp
  \/ setProp
  \/ beforeSetSettles
  \/ setPropSettles
  \/ afterSetSettles

SpecMixed == InitMixed /\ [][NextMixed]_vars

(***************************************************************************)
(* Properties.                                                             *)
(***************************************************************************)
Unset == [t |-> "unset", v |-> 0]

\* The value a characteristic object holds, Unset if none was ever given.
ValueOf(values, characteristic) ==
  IF characteristic \in DOMAIN values THEN values[characteristic] ELSE Unset

EmptyCache == [k \in AllKeys |-> Undefined]

\* Every characteristic of the index holds the transform of the value the
\* mapping V has for its key.
AllPushed(V) ==
  \A i \in 1..Len(props) : \A j \in 1..Len(props[i].values) :
    ValueOf(charValue, props[i].values[j].characteristic)
      = ApplyGetMap(props[i].values[j].map.oldMap, V[props[i].key])

C2_FailedPollChangesNothing ==
  (poll.pc = "idle" /\ poll.outcome = "error") =>
    (cache = poll.cacheBefore /\ charValue = poll.valuesBefore)

\* C3: a get issues no Device Protocol call, answers without error, and
\* while the cache is still empty answers the read transform of null.
C3_GetServesCache ==
  [][getProp =>
       /\ deviceCalls' = deviceCalls
       /\ lastGet'.error = Null
       /\ cache' = cache
       /\ (cache = EmptyCache =>
             lastGet'.value = ApplyGetMap(lastGet'.map.oldMap, Null))]_vars

\* A get was answered before any poll, with the transform of null.
C3_Witness ==
  /\ lastGet.pc = "done"
  /\ poll.count = 0
  /\ lastGet.map.oldMap = "inc"
  /\ lastGet.value = Num(1)

(***************************************************************************)
(* The write path.                                                         *)
(***************************************************************************)
\* Places of the write's log holding the given step.
Steps(op) == {i \in 1..Len(write.log) : write.log[i].op = op}

WriteDone == write.pc = "idle" /\ write.count > 0

\* beforeSet answered true.
SkipSignalled ==
  \E i \in Steps("beforeSet.settled") :
    write.log[i].error = "" /\ write.log[i].value = Bool(TRUE)

\* beforeSet answered something else, or there is no hook.
NoSkipSignalled ==
  \/ ~write.entry.beforeSet
  \/ \E i \in Steps("beforeSet.settled") :
       write.log[i].error = "" /\ write.log[i].value # Bool(TRUE)

\* writeTransform(requestedValue)
DeviceValue == ApplySetMap(write.entry.map, write.value)

AfterSetRanWithDeviceValue ==
  write.entry.afterSet =>
    \E i \in Steps("afterSet") : write.log[i].value = DeviceValue

AcknowledgedSuccess ==
  /\ write.log # << >>
  /\ write.log[Len(write.log)].op = "callback"
  /\ write.log[Len(write.log)].error = ""

SetPropIssuedOnce ==
  /\ Cardinality(Steps("setProp")) = 1
  /\ \A i \in Steps("setProp") :
       /\ write.log[i].key = write.entry.key
       /\ write.log[i].call = write.entry.call
       /\ write.log[i].value = DeviceValue

SettledBefore(i, settled) ==
  \E j \in Steps(settled) : j < i /\ write.log[j].error = ""

\* C5: setProp is not issued before beforeSet settled, afterSet is not
\* invoked before setProp settled, and success is not acknowledged before
\* afterSet settled; the steps occur in the order beforeSet, setProp,
\* afterSet, acknowledgment.
C5_StepsInOrder ==
  /\ \A i \in Steps("setProp") :
       write.entry.beforeSet => SettledBefore(i, "beforeSet.settled")
  /\ \A i \in Steps("afterSet") :
       /\ write.entry.beforeSet => SettledBefore(i, "beforeSet.settled")
       /\ \A k \in Steps("setProp") :
            k < i /\ \E j \in Steps("setProp.settled") :
                       k < j /\ j < i /\ write.log[j].error = ""
  /\ \A i \in Steps("callback") :
       write.log[i].error = "" =>
         /\ i = Len(write.log)
         /\ \A k \in Steps("beforeSet") : SettledBefore(i, "beforeSet.settled")
         /\ \A k \in Steps("setProp") : k < i /\ SettledBefore(i, "setProp.settled")
         /\ \A k \in Steps("afterSet") : k < i /\ SettledBefore(i, "afterSet.settled")
         /\ write.entry.afterSet => Steps("afterSet") # {}
  /\ write.pc = "beforeSet" => Steps("setProp") = {} /\ Steps("afterSet") = {}
  /\ write.pc = "setProp" => Steps("afterSet") = {} /\ Steps("callback") = {}
  /\ write.pc = "afterSet" => Steps("callback") = {}

\* A write went through beforeSet, setProp and afterSet and was acknowledged.
C5_Witness ==
  /\ WriteDone
  /\ AcknowledgedSuccess
  /\ Steps("beforeSet") # {}
  /\ Steps("setProp") # {}
  /\ Steps("afterSet") # {}

\* C6: when beforeSet, the write transform, setProp or afterSet fails, no
\* later step of the write takes place, the callback gets that error, no
\* success is acknowledged and the cache is as it was.
C6_FailureAcknowledged ==
  \A i \in 1..Len(write.log) :
    (write.log[i].error # "" /\ write.log[i].op # "callback") =>
      /\ Len(write.log) = i + 1
      /\ write.log[i + 1].op = "callback"
      /\ write.log[i + 1].error = write.log[i].error
      /\ write.pc = "idle"
      /\ \A j \in Steps("callback") : j = i + 1
      /\ cache = write.cacheBefore

\* A write whose device call failed after beforeSet had settled.
C6_Witness ==
  /\ WriteDone
  /\ \E i \in Steps("setProp.settled") : write.log[i].error = "ProtocolError"
  /\ Steps("beforeSet.settled") # {}

(***************************************************************************)
(* Registration and cleanup.                                               *)
(***************************************************************************)
\* C7: after configureAccessory completed, every service of the accessory
\* is named by a feature (service type and subtype), and every
\* characteristic a service keeps is named by a feature of that service.
C7_NothingStaleRemains ==
  Configured =>
    \A i \in 1..Len(services) :
      /\ GetServiceId(services[i]) \in EnabledServices(features)
      /\ \A c \in 1..Len(services[i].characteristics) :
           services[i].characteristics[c]
             \in EnabledCharacteristics(features, services[i])

\* The features register treats as device-backed.
DeviceBacked == {j \in 1..Len(features) : features[j].kind = "dynamic"}

\* C8: after a registration pass the keys of the Property Index are exactly
\* the keys of the device-backed features, each once, and every
\* device-backed feature has its characteristic listed under its key.
C8_IndexKeys ==
  Configured =>
    /\ {props[i].key : i \in 1..Len(props)} = {features[j].key : j \in DeviceBacked}
    /\ \A i, k \in 1..Len(props) : props[i].key = props[k].key => i = k
    /\ \A j \in DeviceBacked :
         \E i \in 1..Len(props) :
           /\ props[i].key = features[j].key
           /\ \E v \in 1..Len(props[i].values) :
                /\ props[i].values[v].characteristic[2] = features[j].characteristic
                /\ props[i].values[v].map.oldMap = features[j].getMap
                /\ props[i].values[v].map.historyKey = features[j].historyKey

\* A table with a get callback and two features on one key was registered.
C8_Witness ==
  /\ Configured
  /\ \E j \in 1..Len(features) : features[j].kind = "callback"
  /\ \E i \in 1..Len(props) : Len(props[i].values) = 2
  /\ Len(props) = 2

(***************************************************************************)
(* History.                                                                *)
(***************************************************************************)
\* A step in which update() ends without having taken its error path.
PollSucceeds == poll.pc = "fetching" /\ poll'.pc = "idle" /\ poll'.outcome = "ok"

\* The characteristics of the index with the key of each, in push order.
Pairs == Flatten(props, 1)

\* The result of the read transform of the pair for the cache of the next state.
ResultOf(pair) == ApplyGetMap(pair.value.map.oldMap, cache'[pair.key])

\* The integer a result is coerced to.
IntegerOf(r) == IF r.t = "number" THEN r ELSE NaN

\* C9: when a poll evaluates two history-tagged bindings of one history
\* type with different fields and both results are truthy, the log of that
\* type holds exactly one entry with the time of the poll, that entry is the
\* most recent one and carries both fields, and the log grew by one entry at
\* most.
C9_OneEntryPerCycle ==
  [][PollSucceeds =>
       \A a, b \in 1..Len(Pairs) :
         LET ma == Pairs[a].value.map
             mb == Pairs[b].value.map
         IN (/\ ma.history /\ mb.history
             /\ ma.historyType = mb.historyType
             /\ ma.historyKey # mb.historyKey
             /\ Truthy(ResultOf(Pairs[a])) /\ Truthy(ResultOf(Pairs[b])))
            =>
            LET log == history'[ma.historyType]
            IN /\ Cardinality({k \in 1..Len(log) :
                                 log[k].time = RoundSeconds(nowMs)}) = 1
               /\ log[Len(log)].time = RoundSeconds(nowMs)
               /\ log[Len(log)].fields[ma.historyKey] = IntegerOf(ResultOf(Pairs[a]))
               /\ log[Len(log)].fields[mb.historyKey] = IntegerOf(ResultOf(Pairs[b]))
               /\ Len(log) <= Len(history[ma.historyType]) + 1]_vars

\* After a poll the most recent entry carries temp and humidity.
C9_Witness ==
  /\ poll.pc = "idle" /\ poll.outcome = "ok"
  /\ Len(history["room"]) = 1
  /\ history["room"][1].fields["temp"] = Num(48)
  /\ history["room"][1].fields["humidity"] = Num(47)

\* C10: when a poll succeeds and the read transform of a history-tagged
\* binding gave a truthy result r, the characteristic holds r, and the most
\* recent entry of the binding's history type has r coerced to an integer
\* in the binding's field, the time of the poll in whole seconds, and every
\* field the most recent entry had before the poll.
C10_HistoryEntry ==
  [][PollSucceeds =>
       \A a \in 1..Len(Pairs) :
         LET m == Pairs[a].value.map
             r == ResultOf(Pairs[a])
         IN (m.history /\ Truthy(r)) =>
            LET log == history'[m.historyType]
                last == log[Len(log)]
            IN /\ ValueOf(charValue', Pairs[a].value.characteristic) = r
               /\ log # << >>
               /\ last.fields[m.historyKey] = IntegerOf(r)
               /\ last.time = RoundSeconds(nowMs)
               /\ \A f \in HistoryKeys :
                    GetLastEntry(history[m.historyType]).fields[f] # Undefined
                      => last.fields[f] # Undefined]_vars

\* Two polls a second apart left two entries, the later with the humidity.
C10_Witness ==
  /\ poll.pc = "idle" /\ poll.outcome = "ok"
  /\ Len(history["room"]) = 2
  /\ history["room"][2].time = 1
  /\ history["room"][2].fields["humidity"] = Num(47)
  /\ \E i \in 1..Len(props) : \E v \in 1..Len(props[i].values) :
       /\ props[i].values[v].map.historyKey = "humidity"
       /\ ValueOf(charValue, props[i].values[v].characteristic) = Num(47)

(***************************************************************************)
(* Failures of a poll cycle.                                               *)
(***************************************************************************)
\* C11: update() never ends with its promise rejected, whether getProps or
\* a later step of the cycle failed; and a poll that succeeds after an
\* earlier one failed stores the mapping it got and pushes the transform of
\* it to every characteristic of the index.
C11_PollFailuresContained ==
  /\ poll.pc \in {"idle", "fetching"}
  /\ (poll.pc = "idle" /\ poll.outcome = "error") => poll.error # ""
  /\ (poll.pc = "idle" /\ poll.outcome = "ok" /\ poll.failures > 0) =>
       (cache = poll.returned /\ AllPushed(poll.returned))

\* A poll failed after its fetch, and the next one succeeded.
C11_Witness ==
  /\ poll.pc = "idle" /\ poll.outcome = "ok"
  /\ poll.failures = 1 /\ poll.count = 2
  /\ cache["humidity"] = Num(47)
  /\ poll.cacheBefore["humidity"] = Num(0)

\* The error a finished write was acknowledged with, "" for success.
WriteError == IF write.log = << >> THEN "" ELSE write.log[Len(write.log)].error

\* C12: a ProtocolError met by a poll or by a write is logged with the
\* invalid-token warning besides the error line; any other error of a poll
\* or of a write is logged with the error line only.
C12_InvalidTokenLogged ==
  /\ (poll.pc = "idle" /\ poll.outcome = "error") =>
       /\ "error" \in poll.logged
       /\ ("warn.invalidToken" \in poll.logged) <=> (poll.error = "ProtocolError")
  /\ (WriteDone /\ WriteError # "") =>
       /\ "error" \in write.logged
       /\ ("warn.invalidToken" \in write.logged) <=> (WriteError = "ProtocolError")

\* The half of C12 about polls.
PollInvalidTokenLogged ==
  (poll.pc = "idle" /\ poll.outcome = "error") =>
     /\ "error" \in poll.logged
     /\ ("warn.invalidToken" \in poll.logged) <=> (poll.error = "ProtocolError")

(***************************************************************************)
(* Malformed Feature Tables.                                               *)
(***************************************************************************)
\* A device-backed binding that lacks `key`, or has a write path without `call`.
Malformed(config) ==
  config.kind = "dynamic" /\ (config.key = "" \/ (config.hasSet /\ config.call = ""))

\* C13: once configureAccessory ran on a Feature Table with a malformed
\* device-backed binding, it has reported an error, and that binding has no
\* get responder, no set responder and no place in the index.
C13_MalformedRejected ==
  \A j \in 1..Len(features) :
    (configs.count > 0 /\ Malformed(features[j])) =>
      /\ configs.failed
      /\ \A l \in getListeners : l.characteristic[2] # features[j].characteristic
      /\ \A e \in setListeners : e.characteristic[2] # features[j].characteristic
      /\ \A i \in 1..Len(props) : \A v \in 1..Len(props[i].values) :
           props[i].values[v].characteristic[2] # features[j].characteristic

(***************************************************************************)
(* Polls, gets and writes side by side.                                    *)
(***************************************************************************)
\* The value a get answers with when the cache it reads is the mapping m.
GetAnswer(m, key, map) ==
  ApplyGetMap(map.oldMap, IF Truthy(m[key]) THEN m[key] ELSE Null)

\* C14: the cache a get reads is, key for key, the mapping the latest
\* successful fetch returned (the empty mapping before the first), also
\* while a newer fetch is pending, and the get answers from that mapping.
C14_GetSeesOneSnapshot ==
  [][getProp =>
       /\ cache = poll.returned
       /\ lastGet'.value = GetAnswer(poll.returned, lastGet'.key, lastGet'.map)]_vars

\* A get answered 47 from the first poll's mapping, and a second poll
\* replaced both keys.
C14_Witness ==
  /\ poll.count = 2 /\ poll.pc = "idle" /\ poll.fetched
  /\ lastGet.pc = "done" /\ lastGet.key = "humidity" /\ lastGet.value = Num(47)
  /\ poll.cacheBefore = [EmptyCache EXCEPT !["humidity"] = Num(47), !["power"] = StrOn]
  /\ cache = [EmptyCache EXCEPT !["humidity"] = Num(0), !["power"] = StrOff]

WriteStep == write' # write

\* C16: a step of a write changes neither the cache nor the index and
\* starts no poll; the cache changes only in the step in which a poll's
\* fetch succeeds; and a get made after a write began, with no fetch having
\* succeeded since, answers from the cache as it was when the write began.
C16_WriteLeavesCache ==
  [][/\ WriteStep => (cache' = cache /\ props' = props /\ poll' = poll)
     /\ cache' # cache => (poll.pc = "fetching" /\ poll'.fetched
                           /\ poll'.stored # poll.stored)
     /\ (getProp /\ write.count > 0 /\ poll.stored = write.storedBefore) =>
          lastGet'.value = GetAnswer(write.cacheBefore, lastGet'.key, lastGet'.map)]_vars

\* After a poll stored "off", a write of 1 to Active was acknowledged with
\* success, and a get still answers false.
C16_Witness ==
  /\ WriteDone /\ AcknowledgedSuccess
  /\ write.entry.key = "power" /\ write.mappedValue = StrOn
  /\ Steps("setProp") # {}
  /\ write.cacheBefore["power"] = StrOff
  /\ poll.stored = write.storedBefore /\ poll.stored = 1
  /\ cache["power"] = StrOff
  /\ lastGet.pc = "done" /\ lastGet.key = "power" /\ lastGet.value = Bool(FALSE)

(***************************************************************************)
(* History outside the poll cycle.                                         *)
(***************************************************************************)
\* C17: no get and no step of a write touches the History Log: the entries
\* of every history type are after the step what they were before it.
C17_HistoryOnlyInPolls ==
  [][(getProp \/ WriteStep) => history' = history]_vars

\* A step in which getProps resolved and the push loop ran, to its end or
\* to the place where it threw.
FetchResolves == poll.pc = "fetching" /\ poll'.pc = "idle" /\ poll'.fetched

\* C18: when the read transform of a history-tagged binding gives a falsy
\* result, the evaluation leaves the History Log alone: a poll in which all
\* tagged bindings of a history type gave falsy results leaves that type's
\* entries as they were, and so does a get with a falsy result; the falsy
\* result is the value the poll pushes to the characteristic.
C18_FalsyNotRecorded ==
  [][/\ FetchResolves =>
          \A h \in HistoryTypes :
            (\A a \in 1..Len(Pairs) :
               (Pairs[a].value.map.history /\ Pairs[a].value.map.historyType = h)
                 => ~Truthy(ResultOf(Pairs[a])))
            => history'[h] = history[h]
     /\ PollSucceeds =>
          \A a \in 1..Len(Pairs) :
            (Pairs[a].value.map.history /\ ~Truthy(ResultOf(Pairs[a])))
              => ValueOf(charValue', Pairs[a].value.characteristic) = ResultOf(Pairs[a])
     /\ (getProp /\ lastGet'.map.history /\ ~Truthy(lastGet'.value))
          => history' = history]_vars

\* A poll read humidity 0: the sensor holds 0 and the log, which had the
\* entry of an earlier poll, gained nothing.
C18_Witness ==
  /\ poll.pc = "idle" /\ poll.outcome = "ok" /\ poll.count = 2
  /\ cache["humidity"] = Num(0)
  /\ Len(history["room"]) = 1
  /\ history["room"][1].fields["humidity"] = Num(47)
  /\ \E i \in 1..Len(props) : \E v \in 1..Len(props[i].values) :
       /\ props[i].values[v].map.history
       /\ ValueOf(charValue, props[i].values[v].characteristic) = Num(0)

(***************************************************************************)
(* The keys a poll asks for.                                               *)
(***************************************************************************)
\* The keys of the index.
IndexKeys == {props[i].key : i \in 1..Len(props)}

\* C19: the step that starts a poll cycle issues one Device Protocol call,
\* for the keys of the index as it is at that moment, each key once; no
\* other step of the cycle issues a call.
C19_OneCallForIndexKeys ==
  [][/\ poll'.count = poll.count + 1 =>
          /\ deviceCalls' = deviceCalls + 1
          /\ {poll'.keys[i] : i \in 1..Len(poll'.keys)} = IndexKeys
          /\ Len(poll'.keys) = Cardinality(IndexKeys)
     /\ poll'.count = poll.count => deviceCalls' = deviceCalls]_vars

\* A poll asked for power and humidity, the keys of three bindings.
C19_Witness ==
  /\ poll.pc = "fetching"
  /\ poll.keys = << "power", "humidity" >>
  /\ deviceCalls = poll.count
  /\ Cardinality(getListeners) = 3

(***************************************************************************)
(* Repeated configuration.                                                 *)
(***************************************************************************)
\* The device-backed bindings of the Feature Table.
DynamicFeatures == {j \in 1..Len(features) : features[j].kind = "dynamic"}

\* C20: after any number of configuration passes the index holds every
\* (key, characteristic) pair of the Feature Table once: no pair twice, and
\* as many pairs, hence pushes of a poll, as there are device-backed
\* bindings.
C20_IndexRebuilt ==
  Configured =>
    /\ \A a, b \in 1..Len(Flatten(props, 1)) :
         (/\ Flatten(props, 1)[a].key = Flatten(props, 1)[b].key
          /\ Flatten(props, 1)[a].value.characteristic
               = Flatten(props, 1)[b].value.characteristic)
         => a = b
    /\ Len(Flatten(props, 1)) = Cardinality(DynamicFeatures)

(***************************************************************************)
(* Gets against the values a poll pushed.                                  *)
(***************************************************************************)
\* C21: once a poll succeeded, a get on a characteristic of the index
\* answers the value that poll pushed to the characteristic, the read
\* transform of the cached value of its key, whatever that value is.
C21_GetAgreesWithPush ==
  [][(getProp /\ poll.pc = "idle" /\ poll.outcome = "ok") =>
       /\ lastGet'.value = ValueOf(charValue, lastGet'.characteristic)
       /\ lastGet'.value = ApplyGetMap(lastGet'.map.oldMap, cache[lastGet'.key])]_vars

(***************************************************************************)
(* The services and characteristics of the bindings after the cleanup.     *)
(***************************************************************************)
\* The characteristic objects register worked on: those it installed a get
\* responder on, and those it gave a static value.
BoundCharacteristics ==
  {l.characteristic : l \in getListeners} \cup DOMAIN charValue

\* C22: after configureAccessory completed, the service register obtained
\* or created for a binding is on the accessory and has the binding's
\* characteristic.
C22_BindingsSurviveCleanup ==
  Configured =>
    \A c \in BoundCharacteristics :
      \E i \in 1..Len(services) :
        /\ services[i].id = c[1]
        /\ SeqContains(services[i].characteristics, c[2])

(***************************************************************************)
(* The acknowledgment of a write.                                          *)
(***************************************************************************)
\* The steps of the write that failed.
FailedSteps ==
  {i \in 1..Len(write.log) : write.log[i].op # "callback" /\ write.log[i].error # ""}

\* C23: a write whose hooks and device call settled has called the
\* callback once, as its last step: without an error when no step failed,
\* with the error of the step that failed otherwise; a write that still
\* waits for a hook or for the device has not called it.
C23_AcknowledgedOnce ==
  /\ WriteDone =>
       /\ Cardinality(Steps("callback")) = 1
       /\ write.log[Len(write.log)].op = "callback"
       /\ (FailedSteps = {}) <=> (WriteError = "")
       /\ \A i \in FailedSteps : write.log[i].error = WriteError
  /\ write.pc # "idle" => Steps("callback") = {}

\* beforeSet signalled the skip, afterSet failed, and the callback was
\* called once, with that error.
C23_Witness ==
  /\ WriteDone
  /\ SkipSignalled
  /\ Steps("setProp") = {}
  /\ Cardinality(Steps("callback")) = 1
  /\ WriteError = "AfterSetError"

====
